---- MODULE Spec2Model ----
(***************************************************************************)
(* Registration / login of learn_server (src/src/main.rs).                 *)
(*                                                                         *)
(* Strings are sequences of one-character strings, so that lengths and     *)
(* the character-class regex are computed on the characters.  An encoded   *)
(* credential (PHC string) is the token sequence                           *)
(*     $ argon2id $ <salt> $ <digest tokens>                                *)
(* where the digest is the symbolic term argon2(salt, password): two       *)
(* digests are equal exactly when salt and password are equal.             *)
(***************************************************************************)
EXTENDS Naturals, Sequences, FiniteSets

VARIABLES users, pc, kind, info, password_hash, search_user, result, resp, steps

vars == <<users, pc, kind, info, password_hash, search_user, result, resp, steps>>

(* ------------------------------ bounds -------------------------------- *)

\* number of requests handled concurrently by the server
MaxReqs == 2

Reqs == 1..MaxReqs

(* ------------------------- program constants -------------------------- *)

USERNAME_MIN == 3
USERNAME_MAX == 30
EMAIL_MAX == 50
PASSWORD_MIN == 6

\* static UPPERCASE_RE = ".*[A-Z].*": the character class of the pattern
UPPERCASE_RE ==
    {"A","B","C","D","E","F","G","H","I","J","K","L","M",
     "N","O","P","Q","R","S","T","U","V","W","X","Y","Z"}

(* ------------------------------ inputs -------------------------------- *)

RECURSIVE Rep(_, _)
Rep(c, n) == IF n = 0 THEN <<>> ELSE <<c>> \o Rep(c, n - 1)

S_alice == <<"a","l","i","c","e">>
S_bob == <<"b","o","b">>
S_al == <<"a","l">>
S_haoxiangzhou == <<"h","a","o","x","i","a","n","g","z","h","o","u">>
S_mail_a == <<"a","@","x",".","i","o">>
S_mail_b == <<"b","@","x",".","i","o">>
S_mail_bad == <<"a","x",".","i","o">>
S_mail_hao == S_haoxiangzhou \o <<"@","e","x","a","m","p","l","e",".","c","o","m">>
S_Abc123 == <<"A","b","c","1","2","3">>
S_Xyz789 == <<"X","y","z","7","8","9">>
S_abc123 == <<"a","b","c","1","2","3">>
S_P2025zhx == <<"P","2","0","2","5","z","h","x">>

S_test_2 == <<"t","e","s","t","_","2">>
S_mail_test_2 == S_test_2 \o <<"@","e","x","a","m","p","l","e",".","c","o","m">>
S_p2025test2 == <<"p","2","0","2","5","t","e","s","t","2">>
S_wrong == <<"w","r","o","n","g">>

RegisterBody(u, e, p, c) ==
    [username |-> u, email |-> e, password |-> p, confirm_password |-> c]

LoginBody(u, p) == [username |-> u, password |-> p]

\* salts OsRng can draw
Salts == {"s1", "s2"}

\* request bodies the JSON extractor rejects
JsonRejections == {"JsonSyntaxError", "JsonDataError"}

\* register payloads: the valid ones, the payload of
\* tests::test_register_user_failed, a mismatch, and one breaking several rules
RegisterBodies ==
    {RegisterBody(S_alice, S_mail_a, S_Abc123, S_Abc123),
     RegisterBody(S_alice, S_mail_b, S_Xyz789, S_Xyz789),
     RegisterBody(S_bob, S_mail_a, S_Xyz789, S_Xyz789),
     RegisterBody(S_bob, S_mail_b, S_Abc123, S_Abc123)}
    \cup {RegisterBody(S_test_2, S_mail_test_2, S_p2025test2, S_p2025test2),
          RegisterBody(S_bob, S_mail_b, S_Abc123, S_Xyz789),
          RegisterBody(S_al, S_mail_bad, S_wrong, S_abc123)}

\* login payloads: valid ones, and invalid ones
LoginBodies ==
    {LoginBody(u, p) : u \in {S_alice, S_haoxiangzhou}, p \in {S_Abc123, S_Xyz789}}
    \cup {LoginBody(S_alice, S_wrong), LoginBody(S_al, S_Abc123)}

\* the payloads of the validation-only specification: every combination
WideUsernames == {S_alice, S_al, <<>>, Rep("u", USERNAME_MAX), Rep("u", USERNAME_MAX + 1)}
WideEmails ==
    {S_mail_a, S_mail_bad, <<>>, <<"@","x">>, <<"a","@">>, <<"a","@","b","@","c">>,
     Rep("e", EMAIL_MAX + 1), Rep("e", EMAIL_MAX - 2) \o <<"@","x">>,
     Rep("e", EMAIL_MAX - 1) \o <<"@","x">>}
WidePasswords ==
    {S_Abc123, S_Xyz789, S_abc123, S_wrong, S_p2025test2, <<>>, <<"A">>,
     <<"a","b","c","1","2","Z">>, <<"Z","b","c","1","2">>}

WideRegisterBodies ==
    {RegisterBody(u, e, p, c) :
        u \in WideUsernames, e \in WideEmails, p \in WidePasswords, c \in WidePasswords}

WideLoginBodies == {LoginBody(u, p) : u \in WideUsernames, p \in WidePasswords}

(* ------------------------------ values -------------------------------- *)

NoUser == [username |-> <<>>, primary_email_address |-> <<>>, password |-> <<>>]

NoResult == [tag |-> "None", inner |-> "", errors |-> <<>>, user |-> NoUser]

NoResp == [status |-> "", body |-> ""]

NoInfo == [username |-> <<>>, password |-> <<>>]

Ok(user) == [tag |-> "Ok", inner |-> "", errors |-> <<>>, user |-> user]

\* enum ServerError
PasswordHashError(e) ==
    [tag |-> "PasswordHashError", inner |-> e, errors |-> <<>>, user |-> NoUser]

DatabaseError(e) ==
    [tag |-> "DatabaseError", inner |-> e, errors |-> <<>>, user |-> NoUser]

ValidationError(errs) ==
    [tag |-> "ValidationError", inner |-> "", errors |-> errs, user |-> NoUser]

JsonRejectionError(e) ==
    [tag |-> "JsonRejectionError", inner |-> e, errors |-> <<>>, user |-> NoUser]

(* ------------------------- Validation Pipeline ------------------------ *)

\* validator: length(min = .., max = ..), counted in characters
ValidateLength(s, hasMin, min, hasMax, max) ==
    /\ (hasMin => Len(s) >= min)
    /\ (hasMax => Len(s) <= max)

\* validator: email(): one "@" with a non-empty user part and domain part
ValidateEmail(s) ==
    LET ats == {i \in 1..Len(s) : s[i] = "@"}
    IN /\ Cardinality(ats) = 1
       /\ \A i \in ats : i > 1 /\ i < Len(s)

\* validator: regex(path = *UPPERCASE_RE): the unanchored pattern .*[A-Z].*
ValidateRegex(s) == \E i \in 1..Len(s) : s[i] \in UPPERCASE_RE

\* validator: must_match(other = ..)
ValidateMustMatch(a, b) == a = b

Violation(f, c) == [field |-> f, code |-> c]

When(ok, f, c) == IF ok THEN <<>> ELSE <<Violation(f, c)>>

\* derive(Validate) for RegisterInfo: every rule runs, in field order
ValidateRegisterNoConfirmRule(i) ==
       When(ValidateLength(i.username, TRUE, USERNAME_MIN, TRUE, USERNAME_MAX), "username", "length")
    \o When(ValidateEmail(i.email), "email", "email")
    \o When(ValidateLength(i.email, FALSE, 0, TRUE, EMAIL_MAX), "email", "length")
    \o When(ValidateLength(i.password, TRUE, PASSWORD_MIN, FALSE, 0), "password", "length")
    \o When(ValidateRegex(i.password), "password", "regex")
    \o When(ValidateMustMatch(i.password, i.confirm_password), "password", "must_match")

ValidateRegister(i) ==
       When(ValidateLength(i.username, TRUE, USERNAME_MIN, TRUE, USERNAME_MAX), "username", "length")
    \o When(ValidateEmail(i.email), "email", "email")
    \o When(ValidateLength(i.email, FALSE, 0, TRUE, EMAIL_MAX), "email", "length")
    \o When(ValidateLength(i.password, TRUE, PASSWORD_MIN, FALSE, 0), "password", "length")
    \o When(ValidateRegex(i.password), "password", "regex")
    \o When(ValidateMustMatch(i.password, i.confirm_password), "password", "must_match")
    \o When(ValidateMustMatch(i.confirm_password, i.password), "confirm_password", "must_match")

\* derive(Validate) for LoginInfo
ValidateLogin(i) ==
       When(ValidateLength(i.username, TRUE, USERNAME_MIN, TRUE, USERNAME_MAX), "username", "length")
    \o When(ValidateLength(i.password, TRUE, PASSWORD_MIN, FALSE, 0), "password", "length")
    \o When(ValidateRegex(i.password), "password", "regex")

Validate(k, i) == IF k = "register" THEN ValidateRegister(i) ELSE ValidateLogin(i)

(* ---------------------- Credential Hashing Engine --------------------- *)

\* the Argon2id digest of a password under a salt, as a symbolic term
Digest(password, salt) == <<"argon2(", salt, ",">> \o password \o <<")">>

HashPasswordPlain(password, salt) == password

\* ARGON2.hash_password(password, &salt)?.to_string(): the PHC string
HashPassword(password, salt) ==
    <<"$", "argon2id", "$", salt, "$">> \o Digest(password, salt)

\* PasswordHash::new(s): parse a PHC string; a string that does not start
\* with the "$" field separator is rejected
PasswordHashNew(s) ==
    IF Len(s) >= 6 /\ s[1] = "$" /\ s[3] = "$" /\ s[5] = "$"
    THEN [ok |-> TRUE, err |-> "", algorithm |-> s[2], salt |-> s[4],
          hash |-> SubSeq(s, 6, Len(s))]
    ELSE [ok |-> FALSE, err |-> "PhcStringField", algorithm |-> "", salt |-> "",
          hash |-> <<>>]

\* ARGON2.verify_password(password, &hash): "" for Ok(()), else the error
VerifyPassword(password, hash) ==
    IF hash.algorithm # "argon2id" THEN "Algorithm"
    ELSE IF Digest(password, hash.salt) = hash.hash THEN ""
    ELSE "Password"

(* ------------------- Error Taxonomy & Response Mapper ----------------- *)

\* Display of the wrapped error (#[error(transparent)])
ErrorText(e) ==
    CASE e = "Password" -> "invalid password"
      [] e = "Algorithm" -> "unsupported algorithm"
      [] e = "PhcStringField" -> "password hash string missing field"
      [] e = "RowNotFound" ->
            "no rows returned by a query that expected to return at least one row"
      [] e = "UniqueViolation" ->
            "error returned from database: duplicate key value violates unique constraint"
      [] e = "Io" -> "error communicating with database"
      [] e = "JsonSyntaxError" -> "Failed to parse the request body as JSON"
      [] e = "JsonDataError" ->
            "Failed to deserialize the JSON body into the target type"
      [] OTHER -> e

RECURSIVE Text(_)
\* the string the characters of s spell
Text(s) == IF s = <<>> THEN "" ELSE Head(s) \o Text(Tail(s))

RECURSIVE ValidationText(_)
\* Display of validator::ValidationErrors: one line per violation; no rule of
\* RegisterInfo or LoginInfo sets a message, so a line shows the rule's code
\* (the rule's parameters, which follow the code, are left out)
ValidationText(errs) ==
    IF errs = <<>> THEN ""
    ELSE Head(errs).field \o ": Validation error: " \o Head(errs).code
         \o (IF Len(errs) > 1 THEN "\n" ELSE "")
         \o ValidationText(Tail(errs))

\* self.to_string()
ToString(err) ==
    IF err.tag = "ValidationError" THEN ValidationText(err.errors)
    ELSE ErrorText(err.inner)

\* rejection.status()
RejectionStatus(e) ==
    IF e = "JsonSyntaxError" THEN "BAD_REQUEST" ELSE "UNPROCESSABLE_ENTITY"

\* Json(ErrorResponse { message })
JsonErrorResponse(message) == "{\"message\":\"" \o message \o "\"}"

\* Json(User)
JsonUser(u) ==
    "{\"username\":\"" \o Text(u.username)
    \o "\",\"primary_email_address\":\"" \o Text(u.primary_email_address)
    \o "\",\"password\":\"" \o Text(u.password) \o "\"}"

\* impl IntoResponse for ServerError
IntoResponse(err) ==
    CASE err.tag = "DatabaseError" ->
            [status |-> "BAD_REQUEST", body |-> JsonErrorResponse(ToString(err))]
      [] err.tag = "ValidationError" ->
            [status |-> "BAD_REQUEST", body |-> JsonErrorResponse(ToString(err))]
      [] err.tag = "PasswordHashError" ->
            [status |-> "BAD_REQUEST", body |-> JsonErrorResponse(ToString(err))]
      [] err.tag = "JsonRejectionError" ->
            [status |-> RejectionStatus(err.inner),
             body |-> JsonErrorResponse(ToString(err))]

\* the response of a handler's Result: Ok(()) and Ok(Json(user)) answer 200
Respond(k, res) ==
    IF res.tag = "Ok"
    THEN [status |-> "OK", body |-> IF k = "login" THEN JsonUser(res.user) ELSE ""]
    ELSE IntoResponse(res)

(* ------------------------- storage collaborator ----------------------- *)

\* a row of table users; id is generated, organization/team/group are NULL
UserRow(username, email, password) ==
    [username |-> username, primary_email_address |-> email, password |-> password]

\* the row tests::create_data inserts: its password column holds the plaintext
LegacyUser == UserRow(S_haoxiangzhou, S_mail_hao, S_P2025zhx)

\* a row left by an earlier registration of alice
EarlierUser == UserRow(S_alice, S_mail_a, HashPassword(S_Abc123, "s1"))

\* the unique indexes of table users on username and on the email address
UniqueConflict(rows, row) ==
    \E u \in rows :
        \/ u.username = row.username
        \/ u.primary_email_address = row.primary_email_address

\* INSERT INTO users ... .execute(&pool).await
InsertUser(rows, row, io) ==
    IF io THEN [err |-> "Io", users |-> rows]
    ELSE IF UniqueConflict(rows, row) THEN [err |-> "UniqueViolation", users |-> rows]
    ELSE [err |-> "", users |-> rows \cup {row}]

\* SELECT * FROM users WHERE username=$1 ... .fetch_one(&pool).await:
\* the possible answers
FetchOne(rows, username, io) ==
    IF io THEN {[err |-> "Io", user |-> NoUser]}
    ELSE IF {u \in rows : u.username = username} = {}
    THEN {[err |-> "RowNotFound", user |-> NoUser]}
    ELSE {[err |-> "", user |-> u] : u \in {u \in rows : u.username = username}}

(* ------------------ Registration/Login Orchestrator ------------------- *)

\* the requests a route can receive: a JSON body of the payload's type, or
\* one the Json extractor rejects
Requests(bodies) ==
    {[rejection |-> "", data |-> b] : b \in bodies}
    \cup {[rejection |-> j, data |-> NoInfo] : j \in JsonRejections}

FromRequestNoValidate(k, request) ==
    IF request.rejection # "" THEN JsonRejectionError(request.rejection)
    ELSE NoResult

\* ValidatedJson::from_request: the error it rejects with, NoResult when it
\* yields Ok(ValidatedJson(info))
FromRequest(k, request) ==
    IF request.rejection # "" THEN JsonRejectionError(request.rejection)
    ELSE IF Validate(k, request.data) # <<>>
    THEN ValidationError(Validate(k, request.data))
    ELSE NoResult

RegisterResultIgnored(ins) == Ok(NoUser)

\* register_user: .execute(&pool).await?; Ok(())
RegisterResult(ins) ==
    IF ins.err # "" THEN DatabaseError(ins.err) ELSE Ok(NoUser)

VerifyResultUnchecked(password, user) ==
    IF ~PasswordHashNew(user.password).ok
    THEN PasswordHashError(PasswordHashNew(user.password).err)
    ELSE Ok(user)

\* login_user: PasswordHash::new(..)?; ARGON2.verify_password(..)?; Ok(Json(search_user))
VerifyResult(password, user) ==
    IF ~PasswordHashNew(user.password).ok
    THEN PasswordHashError(PasswordHashNew(user.password).err)
    ELSE IF VerifyPassword(password, PasswordHashNew(user.password)) # ""
    THEN PasswordHashError(VerifyPassword(password, PasswordHashNew(user.password)))
    ELSE Ok(user)

Init ==
    /\ users \in SUBSET {LegacyUser, EarlierUser}
    /\ pc = [r \in Reqs |-> "Start"]
    /\ kind = [r \in Reqs |-> ""]
    /\ info = [r \in Reqs |-> NoInfo]
    /\ password_hash = [r \in Reqs |-> <<>>]
    /\ search_user = [r \in Reqs |-> NoUser]
    /\ result = [r \in Reqs |-> NoResult]
    /\ resp = [r \in Reqs |-> NoResp]
    /\ steps = [r \in Reqs |-> <<>>]

\* the handler returns res: the response is sent and the request is over
Return(r, k, res) ==
    /\ pc' = [pc EXCEPT ![r] = "Done"]
    /\ result' = [result EXCEPT ![r] = res]
    /\ resp' = [resp EXCEPT ![r] = Respond(k, res)]

\* a request arrives on route k and the extractor decodes and validates it
Extract(r, k, bodies) ==
    /\ pc[r] = "Start"
    /\ \E request \in Requests(bodies) :
        /\ kind' = [kind EXCEPT ![r] = k]
        /\ info' = [info EXCEPT ![r] = request.data]
        /\ steps' = [steps EXCEPT ![r] =
                        IF request.rejection # "" THEN <<>> ELSE <<"Validating">>]
        /\ IF FromRequest(k, request) # NoResult
           THEN Return(r, k, FromRequest(k, request))
           ELSE /\ pc' = [pc EXCEPT ![r] = IF k = "register" THEN "Hashing" ELSE "Lookup"]
                /\ UNCHANGED <<result, resp>>
    /\ UNCHANGED <<users, password_hash, search_user>>

\* POST /api/register
ExtractRegister(r) == Extract(r, "register", RegisterBodies)

\* POST /api/login
ExtractLogin(r) == Extract(r, "login", LoginBodies)

\* register_user: SaltString::generate, hash_password (which rejects only
\* parameters that Argon2::default and a generated salt never have)
RegisterHash(r) ==
    /\ pc[r] = "Hashing"
    /\ \E salt \in Salts :
        password_hash' = [password_hash EXCEPT ![r] = HashPassword(info[r].password, salt)]
    /\ steps' = [steps EXCEPT ![r] = Append(@, "Hashing")]
    /\ pc' = [pc EXCEPT ![r] = "Persisting"]
    /\ UNCHANGED <<users, kind, info, search_user, result, resp>>

\* register_user: the INSERT and the handler's return
RegisterPersist(r) ==
    /\ pc[r] = "Persisting"
    /\ \E io \in BOOLEAN :
        LET ins == InsertUser(users,
                              UserRow(info[r].username, info[r].email, password_hash[r]),
                              io)
        IN /\ users' = ins.users
           /\ Return(r, "register", RegisterResult(ins))
    /\ steps' = [steps EXCEPT ![r] = Append(@, "Persisting")]
    /\ UNCHANGED <<kind, info, password_hash, search_user>>

\* login_user: login_info.validate()?, then the SELECT
LoginLookup(r) ==
    /\ pc[r] = "Lookup"
    /\ IF ValidateLogin(info[r]) # <<>>
       THEN /\ Return(r, "login", ValidationError(ValidateLogin(info[r])))
            /\ steps' = [steps EXCEPT ![r] = Append(@, "Validating")]
            /\ UNCHANGED search_user
       ELSE \E io \in BOOLEAN : \E got \in FetchOne(users, info[r].username, io) :
            /\ steps' = [steps EXCEPT ![r] = @ \o <<"Validating", "Lookup">>]
            /\ search_user' = [search_user EXCEPT ![r] = got.user]
            /\ IF got.err # ""
               THEN Return(r, "login", DatabaseError(got.err))
               ELSE /\ pc' = [pc EXCEPT ![r] = "Verifying"]
                    /\ UNCHANGED <<result, resp>>
    /\ UNCHANGED <<users, kind, info, password_hash>>

\* login_user: decode the stored credential, verify, return the row
LoginVerify(r) ==
    /\ pc[r] = "Verifying"
    /\ Return(r, "login", VerifyResult(info[r].password, search_user[r]))
    /\ steps' = [steps EXCEPT ![r] = Append(@, "Verifying")]
    /\ UNCHANGED <<users, kind, info, password_hash, search_user>>

Next ==
    \E r \in Reqs :
        \/ ExtractRegister(r)
        \/ ExtractLogin(r)
        \/ RegisterHash(r)
        \/ RegisterPersist(r)
        \/ LoginLookup(r)
        \/ LoginVerify(r)

Spec == Init /\ [][Next]_vars

\* validation alone: one request, every combination of field values
ValidateRegisterWide == Extract(1, "register", WideRegisterBodies)

ValidateLoginWide == Extract(1, "login", WideLoginBodies)

NextValidation == ValidateRegisterWide \/ ValidateLoginWide

SpecValidation == Init /\ [][NextValidation]_vars

(* ------------------------------- claims ------------------------------- *)

\* the kinds of the error taxonomy, by their triggers
KindOf(res) ==
    CASE res.tag = "ValidationError" -> "ValidationFailed"
      [] res.tag = "PasswordHashError" /\ res.inner = "Password" -> "InvalidCredential"
      [] res.tag = "PasswordHashError" /\ res.inner # "Password" -> "HashingFailure"
      [] res.tag = "DatabaseError" -> "StorageFailure"
      [] OTHER -> res.tag

\* the steps of a request's workflow, in order
Flow(k) ==
    IF k = "register" THEN <<"Validating", "Hashing", "Persisting">>
    ELSE <<"Validating", "Validating", "Lookup", "Verifying">>

IsPrefix(s, t) == Len(s) <= Len(t) /\ s = SubSeq(t, 1, Len(s))

Did(r, step) == \E i \in 1..Len(steps[r]) : steps[r][i] = step

\* request r carried a payload (its body was decoded)
Decoded(r) == steps[r] # <<>>

\* the stored credential is the hash of this password
IsHashOf(stored, password) == \E salt \in Salts : stored = HashPassword(password, salt)

\* C1: validation runs first. The steps a request has taken are a prefix of its
\* workflow (register: Validating, Hashing, Persisting; login: Validating, the
\* handler's second Validating, Lookup, Verifying); hashing, lookup and the INSERT
\* are taken only by a request whose payload passed validation; a request whose
\* payload breaks a rule is Done with ValidationError having taken the Validating
\* step alone, with no hash computed and no row fetched; a request that succeeds
\* has taken every step of its workflow.
C1_ValidationFirst ==
    \A r \in Reqs :
        /\ IsPrefix(steps[r], Flow(kind[r]))
        /\ Decoded(r) =>
            /\ (Did(r, "Hashing") \/ Did(r, "Persisting") \/ Did(r, "Lookup")
                    \/ Did(r, "Verifying"))
                => Validate(kind[r], info[r]) = <<>>
            /\ Validate(kind[r], info[r]) # <<>> =>
                /\ pc[r] = "Done"
                /\ result[r] = ValidationError(Validate(kind[r], info[r]))
                /\ steps[r] = <<"Validating">>
                /\ password_hash[r] = <<>>
                /\ search_user[r] = NoUser
        /\ (pc[r] = "Done" /\ result[r].tag = "Ok") => steps[r] = Flow(kind[r])

\* a rejected payload beside a login that went through every step
C1_Witness ==
    \E r1, r2 \in Reqs :
        /\ Decoded(r1) /\ kind[r1] = "register" /\ pc[r1] = "Done"
        /\ Validate("register", info[r1]) # <<>>
        /\ kind[r2] = "login" /\ pc[r2] = "Done" /\ result[r2].tag = "Ok"

C3_Inv ==
    /\ \A u \in users :
        \/ u = LegacyUser
        \/ /\ PasswordHashNew(u.password).ok
           /\ \E b \in RegisterBodies :
                /\ IsHashOf(u.password, b.password)
                /\ u.password # b.password
    /\ \A r \in Reqs :
        (kind[r] = "register" /\ pc[r] = "Done" /\ result[r].tag = "Ok") =>
            /\ resp[r].status = "OK"
            /\ Validate("register", info[r]) = <<>>
            /\ IsHashOf(password_hash[r], info[r].password)
            /\ password_hash[r] # info[r].password
            /\ UserRow(info[r].username, info[r].email, password_hash[r]) \in users

C3_Step ==
    /\ users \subseteq users'
    /\ Cardinality(users' \ users) <= 1
    /\ \A u \in users' \ users : PasswordHashNew(u.password).ok

\* C3: every credential the register path writes is an encoded hash. Every row
\* but the legacy one holds a decodable PHC string that is the hash of a
\* payload's password and differs from that plaintext; a register that returns
\* Ok answers 200 and has stored its row, holding the hash it computed; a step
\* adds at most one row and none removes or rewrites a stored row.
C3_StoredHashed == [](C3_Inv) /\ [][C3_Step]_vars

\* a registration has stored its row
C3_Witness ==
    \E r \in Reqs :
        /\ kind[r] = "register" /\ pc[r] = "Done" /\ result[r].tag = "Ok"
        /\ UserRow(info[r].username, info[r].email, password_hash[r]) \in users
        /\ LegacyUser \in users

ClientErrorStatus == {"BAD_REQUEST", "UNAUTHORIZED", "NOT_FOUND", "CONFLICT",
                      "UNPROCESSABLE_ENTITY"}

C4_Inv ==
    /\ \A u1, u2 \in users :
        (u1.username = u2.username
            \/ u1.primary_email_address = u2.primary_email_address) => u1 = u2
    /\ \A r1, r2 \in Reqs :
        (/\ r1 # r2
         /\ kind[r1] = "register" /\ pc[r1] = "Done" /\ result[r1].tag = "Ok"
         /\ kind[r2] = "register" /\ pc[r2] = "Done" /\ result[r2].tag = "Ok")
        => info[r1].username # info[r2].username
    /\ \A r \in Reqs :
        (kind[r] = "register" /\ Did(r, "Persisting") /\ result[r].tag # "Ok") =>
            /\ result[r].tag = "DatabaseError"
            /\ resp[r].status \in ClientErrorStatus

C4_Step ==
    \A r \in Reqs :
        (pc[r] = "Persisting" /\ pc'[r] = "Done") =>
            IF result'[r].tag = "Ok"
            THEN /\ \A u \in users : u.username # info[r].username
                 /\ users' = users \cup
                        {UserRow(info[r].username, info[r].email, password_hash[r])}
            ELSE /\ users' = users
                 /\ KindOf(result'[r]) = "StorageFailure"
                 /\ resp'[r].status \in ClientErrorStatus

FoundDecodable(r) ==
    /\ Did(r, "Lookup") /\ search_user[r] # NoUser
    /\ PasswordHashNew(search_user[r].password).ok

C2_Inv ==
    \A r \in Reqs :
        (kind[r] = "login" /\ pc[r] = "Done") =>
            /\ result[r].tag = "Ok" =>
                /\ result[r].user \in users
                /\ result[r].user.username = info[r].username
                /\ IsHashOf(result[r].user.password, info[r].password)
                /\ resp[r] = [status |-> "OK", body |-> JsonUser(result[r].user)]
            /\ (FoundDecodable(r) /\ IsHashOf(search_user[r].password, info[r].password))
                => result[r] = Ok(search_user[r])
            /\ (FoundDecodable(r) /\ ~IsHashOf(search_user[r].password, info[r].password))
                => KindOf(result[r]) = "InvalidCredential"
            /\ (Decoded(r) /\ ValidateLogin(info[r]) # <<>>)
                => KindOf(result[r]) = "ValidationFailed"

C2_Lookup ==
    \A r \in Reqs :
        (pc[r] = "Lookup" /\ pc'[r] # "Lookup") =>
            \/ result'[r] = DatabaseError("Io")
            \/ /\ \A u \in users : u.username # info[r].username
               /\ result'[r] = DatabaseError("RowNotFound")
            \/ /\ pc'[r] = "Verifying"
               /\ search_user'[r] \in users
               /\ search_user'[r].username = info[r].username

\* C2 (as amended): a login that returns Ok returns a stored row of its
\* username whose credential is the hash of the password it sent; a lookup that
\* reaches the store finds the row of the username whenever one is stored; a
\* login whose lookup found a row holding the hash of its password returns that
\* row; one whose lookup found an encoded credential of another password ends
\* in InvalidCredential; one whose password breaks the login rules ends in
\* ValidationFailed.
C2_LoginOutcome == [](C2_Inv) /\ [][C2_Lookup]_vars

\* alice logs in with her password while another login of alice with a
\* different valid password is refused
C2_Witness ==
    \E r1, r2 \in Reqs :
        /\ kind[r1] = "login" /\ pc[r1] = "Done" /\ result[r1].tag = "Ok"
        /\ kind[r2] = "login" /\ pc[r2] = "Done"
        /\ info[r2].username = info[r1].username
        /\ result[r2] = PasswordHashError("Password")

\* C2 (as claimed): whenever the store answers, a login of a stored, registered
\* user with a password other than the registered one ends in InvalidCredential.
C2_Original ==
    \A r \in Reqs :
        (/\ kind[r] = "login" /\ pc[r] = "Done" /\ Decoded(r)
         /\ result[r].tag # "DatabaseError"
         /\ \E u \in users :
                /\ u.username = info[r].username
                /\ PasswordHashNew(u.password).ok
                /\ ~IsHashOf(u.password, info[r].password))
        => KindOf(result[r]) = "InvalidCredential"

\* login request r named a username without a stored row
UnknownUsername(r) ==
    /\ kind[r] = "login" /\ pc[r] = "Done" /\ Did(r, "Lookup")
    /\ search_user[r] = NoUser /\ result[r].inner # "Io"

\* login request r named a stored user and sent a wrong password
WrongPassword(r) ==
    /\ kind[r] = "login" /\ pc[r] = "Done" /\ FoundDecodable(r)
    /\ ~IsHashOf(search_user[r].password, info[r].password)

\* C5: login is enumeration-safe: a login of an unknown username and a login of
\* a stored user with a wrong password get the same response, of kind
\* InvalidCredential.
C5_EnumerationSafe ==
    \A r1, r2 \in Reqs :
        (UnknownUsername(r1) /\ WrongPassword(r2)) =>
            /\ resp[r1] = resp[r2]
            /\ KindOf(result[r1]) = "InvalidCredential"
            /\ KindOf(result[r2]) = "InvalidCredential"

\* C6: a stored credential that does not decode (a legacy plaintext row) makes
\* verification yield false: the login ends in InvalidCredential with the
\* response of a wrong password.
C6_UndecodableIsInvalidCredential ==
    \A r \in Reqs :
        (/\ kind[r] = "login" /\ pc[r] = "Done" /\ Did(r, "Verifying")
         /\ ~PasswordHashNew(search_user[r].password).ok)
        => /\ KindOf(result[r]) = "InvalidCredential"
           /\ resp[r] = Respond("login", PasswordHashError("Password"))

ServerErrorStatus == {"INTERNAL_SERVER_ERROR", "BAD_GATEWAY", "SERVICE_UNAVAILABLE"}

\* C7: every failure is mapped to its kind's status class: ValidationFailed to
\* 422/400, InvalidCredential to unauthorized, HashingFailure to unprocessable,
\* StorageFailure to a server error.
C7_StatusOfKind ==
    \A r \in Reqs :
        (pc[r] = "Done" /\ result[r].tag # "Ok") =>
            /\ KindOf(result[r]) \in {"ValidationFailed", "InvalidCredential",
                                      "HashingFailure", "StorageFailure",
                                      "JsonRejectionError"}
            /\ KindOf(result[r]) = "ValidationFailed"
                => resp[r].status \in {"BAD_REQUEST", "UNPROCESSABLE_ENTITY"}
            /\ KindOf(result[r]) = "InvalidCredential" => resp[r].status = "UNAUTHORIZED"
            /\ KindOf(result[r]) = "HashingFailure"
                => resp[r].status = "UNPROCESSABLE_ENTITY"
            /\ KindOf(result[r]) = "StorageFailure"
                => resp[r].status \in ServerErrorStatus

\* C8: a register payload whose only fault is a password without an uppercase
\* letter is answered BAD_REQUEST with the body text
\* "Validation Error: password: passwords must contain at least one upper case letter"
\* and no row is stored for its username.
C8_UppercaseRejection ==
    \A r \in Reqs :
        (/\ kind[r] = "register" /\ pc[r] = "Done" /\ Decoded(r)
         /\ ~ValidateRegex(info[r].password)
         /\ Validate("register", info[r]) = <<Violation("password", "regex")>>)
        => /\ resp[r].status = "BAD_REQUEST"
           /\ resp[r].body =
                "Validation Error: password: passwords must contain at least one upper case letter"
           /\ \A u \in users : u.username # info[r].username

\* the must_match violations of register request r
Mismatches(r) == {i \in 1..Len(result[r].errors) : result[r].errors[i].code = "must_match"}

\* C9 (as amended): a register payload gets must_match violations exactly when
\* password and confirm_password differ, and then it gets two: one on password
\* and one on confirm_password, each a line of the message.
C9_MustMatch ==
    \A r \in Reqs :
        (kind[r] = "register" /\ Decoded(r)) =>
            /\ result[r].errors = Validate("register", info[r])
            /\ (info[r].password # info[r].confirm_password) <=> (Mismatches(r) # {})
            /\ (info[r].password # info[r].confirm_password) =>
                /\ Cardinality(Mismatches(r)) = 2
                /\ {result[r].errors[i].field : i \in Mismatches(r)}
                    = {"password", "confirm_password"}
                /\ resp[r].status = "BAD_REQUEST"

\* a payload whose two password fields differ has been validated
C9_Witness ==
    \E r \in Reqs :
        /\ kind[r] = "register" /\ Decoded(r) /\ pc[r] = "Done"
        /\ info[r].password = S_Abc123 /\ info[r].confirm_password = S_Xyz789
        /\ Cardinality(Mismatches(r)) = 2

\* C9 (as claimed): when password and confirm_password differ the result holds
\* a single must_match violation.
C9_Original ==
    \A r \in Reqs :
        (kind[r] = "register" /\ Decoded(r)
            /\ info[r].password # info[r].confirm_password)
        => Cardinality(Mismatches(r)) = 1

TaxonomyKinds == {"ValidationFailed", "InvalidCredential", "HashingFailure",
                  "StorageFailure"}

\* C10: the response message depends only on the kind of the failure and, for
\* ValidationFailed, on the violations: two failures of one kind of the taxonomy,
\* with the same violations, carry the same message.
C10_MessageOfKind ==
    \A r1, r2 \in Reqs :
        (/\ pc[r1] = "Done" /\ result[r1].tag # "Ok"
         /\ pc[r2] = "Done" /\ result[r2].tag # "Ok"
         /\ KindOf(result[r1]) \in TaxonomyKinds
         /\ KindOf(result[r1]) = KindOf(result[r2])
         /\ result[r1].errors = result[r2].errors)
        => resp[r1].body = resp[r2].body

====
